---- MODULE Spec2Model ----
(***************************************************************************)
(* Storage lifecycle and bulk operations of the archival backend:          *)
(* the MediaFile table, the object store, the per-file ArchiveJob rows,    *)
(* the Celery bulk tasks (api/tasks.py), the bulk view handlers            *)
(* (api/views/file_views.py), the quota gate (api/services.py) and the     *)
(* per-user cache version (api/views/cache_utils.py, api/utils.py).        *)
(***************************************************************************)
EXTENDS Integers, Sequences, FiniteSets, TLC

\* ---------------------------------------------------------------- bounds
NumFiles == 3
NumTasks == 2
MaxVersion == 3
MaxJobs == 3
NumBumpers == 2

Users == {"u1", "u2"}
FileIds == 1..NumFiles
TaskIds == 1..NumTasks
BumpIds == 1..NumBumpers

\* The last file id belongs to the second user, the others to the first.
Owner(f) == IF f = NumFiles THEN "u2" ELSE "u1"

\* A missing cache key (cache.get returns its default, cache.incr raises).
NoKey == 0 - 1

VARIABLES
    files,      \* MediaFile table: FileIds -> row
    s3,         \* object store: set of <<file id, "warm" | "arch">> keys that exist
    jobs,       \* per-file ArchiveJob rows, in creation order
    task,       \* the Celery bulk tasks: TaskIds -> task state
    cver,       \* cache key user_cache_version_{user}: NoKey or the version
    plan,       \* UserHibernationPlan per user
    resp,       \* the response of the last completed view handler or service call
    lcache,     \* cache entries files_{user}_..._v{version} of list_optimized
    inflight,   \* cache key user_{user}_files_inflight (a missing key reads as 0)
    bumper,     \* the cache invalidations in progress: BumpIds -> position and locals
    vlock,      \* cache key user_cache_version_{user}_lock exists
    uploads,    \* uppy_upload UploadedFile table, in creation order
    sessions,   \* uppy_upload UploadSession table, in creation order
    preq,       \* the get_presigned_urls requests in progress: ReqIds -> position and locals
    now,        \* timezone.now(), in units of the sweep timeout's granularity
    concurrent  \* cache key concurrent_uploads_{user} (a missing key reads as 0)

\* The tables of the uppy upload app, the requests in flight and the clock.
xvars == <<uploads, sessions, preq, now, concurrent>>

vars == <<files, s3, jobs, task, cver, plan, resp, lcache, inflight, bumper, vlock,
          uploads, sessions, preq, now, concurrent>>

\* ------------------------------------------------------------ the tables
NumReqs == 2
ReqIds == 1..NumReqs
NoSnap == [user |-> "u1", total_files |-> 0, uploaded_files |-> 0, status |-> "pending"]
IdleReq == [pc |-> "idle", user |-> "u1", sizes |-> <<>>, cur |-> 0, upload |-> 0,
            snap |-> NoSnap]

\* No uppy upload, no presign request in progress, the clock at its origin.
InitRest ==
    /\ uploads = <<>>
    /\ sessions = <<>>
    /\ preq = [r \in ReqIds |-> IdleReq]
    /\ now = 0
    /\ concurrent = [u \in Users |-> 0]

\* A MediaFile row with the columns the handlers read or write; checksum
\* "none" and glacier_archive_id "none" are NULL, relative_path "" is no path.
MediaRow(o, st, del, key, sz, nm, ck, rp) ==
    [owner |-> o, status |-> st, is_deleted |-> del, s3_key |-> key, file_size |-> sz,
     original_filename |-> nm, checksum |-> ck, relative_path |-> rp,
     glacier_archive_id |-> "none"]

\* queryset.first() on MediaFile (Meta.ordering is -uploaded_at): the newest
\* row of the set, 0 for an empty one.
Newest(S) == IF S = {} THEN 0 ELSE CHOOSE f \in S : \A g \in S : g <= f

\* A row created without a checksum and without a path.
FileRow(o, st, del, key, sz) == MediaRow(o, st, del, key, sz, "a", "none", "")

NoResp ==
    [op |-> "none", user |-> "u1", ids |-> {}, succeeded |-> {}, failed |-> <<>>,
     usage |-> 0, remaining |-> 0, listing |-> {}]

IdleBumper == [pc |-> "idle", kind |-> "none", v |-> 0, attempt |-> 0, v0 |-> 0]

IdleTask ==
    [pc |-> "idle", kind |-> "none", user |-> "u1", ids |-> {}, cand |-> {},
     snap |-> <<>>, succeeded |-> {}, failed |-> <<>>, total |-> 0,
     job |-> "pending", toArchive |-> {}, cur |-> 0, curJob |-> 0, v0 |-> 0]

\* cache.get(f"user_cache_version_{user_id}", 0)
CacheGetVersion(u) == IF cver[u] = NoKey THEN 0 ELSE cver[u]

\* The files of a set in iteration order (ascending id).
RECURSIVE SetToSeq(_)
SetToSeq(S) ==
    IF S = {} THEN <<>>
    ELSE LET m == CHOOSE x \in S : \A y \in S : x <= y
         IN <<m>> \o SetToSeq(S \ {m})

FailedIds(t) == {t.failed[i].id : i \in DOMAIN t.failed}


\* --------------------------------------------------------- bulk requests
\* The id lists a bulk request carries: prefixes of the id range, so the
\* longest one also names the other user's file.
IdSets == {1..k : k \in 1..NumFiles}
TaskUsers == {"u1"}

\* The load without the owner filter (id__in and is_deleted only).
CandidatesAnyUser(u, ids) ==
    {f \in ids : ~files[f].is_deleted}

\* MediaFile.objects.filter(id__in=file_ids, user=user, is_deleted=False)
Candidates(u, ids) ==
    {f \in ids : files[f].owner = u /\ ~files[f].is_deleted}

\* ... .filter(..., status=st): bulk archive loads 'uploaded', bulk restore 'archived'
CandidatesWithStatus(u, ids, st) ==
    {f \in Candidates(u, ids) : files[f].status = st}

Entries(S, err) == [i \in 1..Cardinality(S) |-> [id |-> SetToSeq(S)[i], error |-> err]]

\* utils.invalidate_user_cache: cache.get(key, 0) then cache.set(key, version + 1)
UtilsBump(u) == [cver EXCEPT ![u] = CacheGetVersion(u) + 1]

\* A cache entry that is not there.
NoEntry == [has |-> FALSE, val |-> {}]

\* utils.invalidate_user_cache, the pattern loop: with django-redis
\* cache.keys(f"files_{user_id}_*") names the user's cached listings and they
\* are deleted; LocMemCache has no keys(), the error is swallowed.
UtilsClearPatterns(u) == [lcache EXCEPT ![u] = [v \in 0..MaxVersion |-> NoEntry]]

\* Model.save(): every column of the row is written from the instance.
SaveRow(tbl, f, m) == [tbl EXCEPT ![f] = m]

\* ------------------------------------------------- process_bulk_delete
\* batch_job -> in_progress; the candidate rows are loaded.
BulkDeleteLoad(t, u, ids) ==
    /\ task[t].pc = "idle"
    /\ LET c == Candidates(u, ids) IN
       task' = [task EXCEPT ![t] =
                  [IdleTask EXCEPT !.pc = "s3", !.kind = "delete", !.user = u,
                                   !.ids = ids, !.cand = c,
                                   !.snap = [f \in c |-> files[f]],
                                   !.total = Cardinality(c),
                                   !.job = "in_progress",
                                   !.v0 = CacheGetVersion(u)]]
    /\ UNCHANGED <<xvars, files, s3, jobs, cver, plan, resp, lcache, inflight, bumper, vlock>>

\* The files of the snapshot that carry an object key.
S3Files(t) == {f \in t.cand : t.snap[f].s3_key # "none"}

\* Step 1, the batch call answers: the keys in errs come back as errors, the
\* others are deleted.  Step 2 (delete_glacier_archive) only prints.
BulkDeleteS3Batch(t) ==
    /\ task[t].pc = "s3"
    /\ \E errs \in SUBSET S3Files(task[t]) :
          /\ s3' = s3 \ {<<f, task[t].snap[f].s3_key>> : f \in S3Files(task[t]) \ errs}
          /\ task' = [task EXCEPT ![t].pc = "db",
                                  ![t].failed = @ \o Entries(errs, "s3_batch_error")]
    /\ UNCHANGED <<xvars, files, jobs, cver, plan, resp, lcache, inflight, bumper, vlock>>

\* Step 1, the batch call raises: one delete_file per file of the snapshot;
\* the keys in bad fail, each failure is recorded and the loop goes on.
BulkDeleteS3Fallback(t) ==
    /\ task[t].pc = "s3"
    /\ S3Files(task[t]) # {}
    /\ \E bad \in SUBSET S3Files(task[t]) :
          /\ s3' = s3 \ {<<f, task[t].snap[f].s3_key>> : f \in S3Files(task[t]) \ bad}
          /\ task' = [task EXCEPT ![t].pc = "db",
                                  ![t].failed = @ \o Entries(bad, "s3_delete_failed")]
    /\ UNCHANGED <<xvars, files, jobs, cver, plan, resp, lcache, inflight, bumper, vlock>>

\* Step 3, bulk_update(files_to_update, ['is_deleted', 'deleted_at']) succeeds:
\* every loaded file is marked deleted and reported as succeeded.
BulkDeleteDb(t) ==
    /\ task[t].pc = "db"
    /\ files' = [f \in FileIds |->
                   IF f \in task[t].cand
                   THEN [files[f] EXCEPT !.is_deleted = TRUE] ELSE files[f]]
    /\ task' = [task EXCEPT ![t].pc = "finish", ![t].succeeded = task[t].cand]
    /\ UNCHANGED <<xvars, s3, jobs, cver, plan, resp, lcache, inflight, bumper, vlock>>

\* Step 3, bulk_update raises: one save() per instance; the saves in bad fail.
BulkDeleteDbFallback(t) ==
    /\ task[t].pc = "db"
    /\ task[t].cand # {}
    /\ \E bad \in SUBSET task[t].cand :
          /\ files' = [f \in FileIds |->
                         IF f \in task[t].cand \ bad
                         THEN [task[t].snap[f] EXCEPT !.is_deleted = TRUE]
                         ELSE files[f]]
          /\ task' = [task EXCEPT ![t].pc = "finish",
                                  ![t].succeeded = task[t].cand \ bad,
                                  ![t].failed = @ \o Entries(bad, "db_update_failed")]
    /\ UNCHANGED <<xvars, s3, jobs, cver, plan, resp, lcache, inflight, bumper, vlock>>

\* The results are stored, the batch job is completed, the cache is invalidated.
BulkFinish(t) ==
    /\ task[t].pc = "finish"
    /\ task' = [task EXCEPT ![t].pc = "done", ![t].job = "completed"]
    /\ cver' = UtilsBump(task[t].user)
    /\ \E redis \in BOOLEAN :
          lcache' = IF redis THEN UtilsClearPatterns(task[t].user) ELSE lcache
    /\ UNCHANGED <<xvars, files, s3, jobs, plan, resp, inflight, bumper, vlock>>

\* ------------------------------------------ MediaFileService.archive_file
\* What the object store and the database answer during one archive_file call.
ArchiveOutcomes == {"ok", "copy_fail", "delete_fail", "save_fail"}

\* The checks before the job is created, without the status check.
ArchivePrecheckNoStatus(m, u) ==
    IF ~plan[u].active THEN "plan_required"
    ELSE IF plan[u].used + m.file_size > plan[u].limit THEN "storage_limit"
    ELSE "ok"

\* The checks before the job is created: the status of the instance, then
\* check_rate_limits('archive') and check_storage_limit.
ArchivePrecheck(m, u) ==
    IF m.status # "uploaded" THEN "state_conflict"
    ELSE IF ~plan[u].active THEN "plan_required"
    ELSE IF plan[u].used + m.file_size > plan[u].limit THEN "storage_limit"
    ELSE "ok"

\* ArchiveJob.objects.create: started_at is auto_now_add, estimated_completion
\* is NULL unless the creator sets it.
NoEta == 0 - 1
JobRow(f, u, kind, st) ==
    [file |-> f, job_type |-> kind, status |-> st, user |-> u,
     started_at |-> now, estimated_completion |-> NoEta]

\* archive_file up to the deletion of the original: the job is created
\* in_progress, the object is copied to the archive key, the original deleted.
\* st is the database and the object store, m the instance the caller holds.
ArchiveBegin(st, f, m, u, out) ==
    LET pre == ArchivePrecheck(m, u)
        j == Len(st.jobs) + 1
        started == Append(st.jobs, JobRow(f, u, "archive", "in_progress"))
        failedJob == Append(st.jobs, JobRow(f, u, "archive", "failed"))
        copyOk == out # "copy_fail" /\ m.s3_key # "none" /\ <<f, m.s3_key>> \in st.s3
        copied == st.s3 \cup {<<f, "arch">>}
    IN  IF pre # "ok" THEN [st |-> st, res |-> pre, job |-> 0]
        ELSE IF ~copyOk
        THEN [st |-> [st EXCEPT !.jobs = failedJob], res |-> "copy_failed", job |-> j]
        ELSE IF out = "delete_fail"
        THEN [st |-> [st EXCEPT !.jobs = failedJob, !.s3 = copied],
              res |-> "delete_failed", job |-> j]
        ELSE [st |-> [st EXCEPT !.jobs = started, !.s3 = copied \ {<<f, m.s3_key>>}],
              res |-> "copied", job |-> j]

\* The instance after archive_file has set status and s3_key on it.
ArchivedInstance(m) == [m EXCEPT !.status = "archived", !.s3_key = "arch"]

\* archive_file from media_file.save() on: the whole row is written from the
\* instance, the job is completed; a failing save fails the job.
ArchiveCommit(st, f, m, j, out) ==
    IF out = "save_fail"
    THEN [st |-> [st EXCEPT !.jobs[j].status = "failed"], res |-> "save_failed", job |-> j]
    ELSE [st |-> [st EXCEPT !.files = SaveRow(st.files, f, ArchivedInstance(m)),
                            !.jobs[j].status = "completed"],
          res |-> "ok", job |-> j]

\* One whole archive_file call.
ArchiveFile(st, f, m, u, out) ==
    LET b == ArchiveBegin(st, f, m, u, out)
    IN  IF b.res = "copied" THEN ArchiveCommit(b.st, f, m, b.job, out) ELSE b

Store == [files |-> files, s3 |-> s3, jobs |-> jobs]

\* ------------------------------------------------ process_bulk_archive
BulkArchiveLoad(t, u, ids) ==
    /\ task[t].pc = "idle"
    /\ LET c == CandidatesWithStatus(u, ids, "uploaded") IN
       task' = [task EXCEPT ![t] =
                  [IdleTask EXCEPT !.pc = "loop", !.kind = "archive", !.user = u,
                                   !.ids = ids, !.cand = c,
                                   !.snap = [f \in c |-> files[f]],
                                   !.total = Cardinality(c),
                                   !.job = "in_progress",
                                   !.v0 = CacheGetVersion(u)]]
    /\ UNCHANGED <<xvars, files, s3, jobs, cver, plan, resp, lcache, inflight, bumper, vlock>>

\* The loaded files the loop has not reached yet.
Remaining(t) == t.cand \ (t.succeeded \cup FailedIds(t))
NextFile(t) == CHOOSE f \in Remaining(t) : \A g \in Remaining(t) : f <= g

\* archive_file on the next loaded instance, up to the deletion of the original.
BulkArchiveBegin(t) ==
    /\ task[t].pc = "loop"
    /\ Remaining(task[t]) # {}
    /\ \E out \in {"ok", "copy_fail", "delete_fail"} :
          LET f == NextFile(task[t])
              r == ArchiveBegin(Store, f, task[t].snap[f], task[t].user, out)
          IN  /\ s3' = r.st.s3
              /\ jobs' = r.st.jobs
              /\ task' = IF r.res = "copied"
                         THEN [task EXCEPT ![t].pc = "save", ![t].cur = f, ![t].curJob = r.job]
                         ELSE [task EXCEPT ![t].failed = Append(@, [id |-> f, error |-> r.res])]
    /\ UNCHANGED <<xvars, files, cver, plan, resp, lcache, inflight, bumper, vlock>>

\* archive_file from media_file.save() on; the file joins succeeded.
BulkArchiveCommit(t) ==
    /\ task[t].pc = "save"
    /\ \E out \in {"ok", "save_fail"} :
          LET f == task[t].cur
              r == ArchiveCommit(Store, f, task[t].snap[f], task[t].curJob, out)
          IN  /\ files' = r.st.files
              /\ jobs' = r.st.jobs
              /\ task' = IF r.res = "ok"
                         THEN [task EXCEPT ![t].pc = "loop",
                                           ![t].succeeded = @ \cup {f},
                                           ![t].toArchive = @ \cup {f},
                                           ![t].snap[f] = ArchivedInstance(@)]
                         ELSE [task EXCEPT ![t].pc = "loop",
                                           ![t].failed = Append(@, [id |-> f, error |-> r.res])]
    /\ UNCHANGED <<xvars, s3, cver, plan, resp, lcache, inflight, bumper, vlock>>

\* Step 2, bulk_update(files_to_archive, ['status', 'archived_at']) succeeds
\* (or there is nothing to update).
BulkArchiveDb(t) ==
    /\ task[t].pc = "loop"
    /\ Remaining(task[t]) = {}
    /\ files' = [f \in FileIds |->
                   IF f \in task[t].toArchive
                   THEN [files[f] EXCEPT !.status = "archived"] ELSE files[f]]
    /\ task' = [task EXCEPT ![t].pc = "finish"]
    /\ UNCHANGED <<xvars, s3, jobs, cver, plan, resp, lcache, inflight, bumper, vlock>>

\* Step 2, bulk_update raises: one save() per instance; the saves in bad fail
\* and are added to failed.
BulkArchiveDbFallback(t) ==
    /\ task[t].pc = "loop"
    /\ Remaining(task[t]) = {}
    /\ task[t].toArchive # {}
    /\ \E bad \in SUBSET task[t].toArchive :
          /\ files' = [f \in FileIds |->
                         IF f \in task[t].toArchive \ bad
                         THEN task[t].snap[f] ELSE files[f]]
          /\ task' = [task EXCEPT ![t].pc = "finish",
                                  ![t].failed = @ \o Entries(bad, "db_update_failed")]
    /\ UNCHANGED <<xvars, s3, jobs, cver, plan, resp, lcache, inflight, bumper, vlock>>

\* ------------------------------------------------ process_bulk_restore
BulkRestoreLoad(t, u, ids) ==
    /\ task[t].pc = "idle"
    /\ LET c == CandidatesWithStatus(u, ids, "archived") IN
       task' = [task EXCEPT ![t] =
                  [IdleTask EXCEPT !.pc = "restore", !.kind = "restore", !.user = u,
                                   !.ids = ids, !.cand = c,
                                   !.snap = [f \in c |-> files[f]],
                                   !.total = Cardinality(c),
                                   !.job = "in_progress",
                                   !.v0 = CacheGetVersion(u)]]
    /\ UNCHANGED <<xvars, files, s3, jobs, cver, plan, resp, lcache, inflight, bumper, vlock>>

\* restore_file without its status check.
RestoreFileNoStatus(m, u) ==
    IF ~plan[u].active THEN "plan_required" ELSE "attribute_error"

\* MediaFileService.restore_file: the status check, check_rate_limits('restore'),
\* then self.s3_service.restore_file, which S3Service does not define: the call
\* raises AttributeError for every file.
RestoreFile(m, u) ==
    IF m.status # "archived" THEN "state_conflict"
    ELSE IF ~plan[u].active THEN "plan_required"
    ELSE "attribute_error"

\* The loop over the loaded files; files_to_restore stays empty, so step 2 is
\* skipped.
BulkRestoreLoop(t) ==
    /\ task[t].pc = "restore"
    /\ task' = [task EXCEPT
                  ![t].pc = "finish",
                  ![t].failed = [i \in 1..Cardinality(task[t].cand) |->
                                   LET f == SetToSeq(task[t].cand)[i]
                                   IN [id |-> f,
                                       error |-> RestoreFile(task[t].snap[f], task[t].user)]]]
    /\ UNCHANGED <<xvars, files, s3, jobs, cver, plan, resp, lcache, inflight, bumper, vlock>>

\* ------------------------------------------------------ the view layer
MaxConcurrentUploads == 3
InflightScale == 1
FreeTierLimit == 4
MaxUploads == 2
FileSizes == {1, 3}

\* Sum of file_size over the user's rows with is_deleted = False.
RECURSIVE SumSizes(_, _)
SumSizes(tbl, S) ==
    IF S = {} THEN 0
    ELSE LET f == CHOOSE x \in S : TRUE IN tbl[f].file_size + SumSizes(tbl, S \ {f})

LiveUsage(tbl, u) ==
    SumSizes(tbl, {f \in DOMAIN tbl : tbl[f].owner = u /\ ~tbl[f].is_deleted})

\* HibernationPlanMiddleware.process_request on /api/media-files/: sess tells
\* whether AuthenticationMiddleware has authenticated the request (a JWT-only
\* request is anonymous at this point and passes).  A user without an active
\* plan is stopped once the live total has reached the free tier limit.
PlanGate(u, sess) == sess /\ ~plan[u].active /\ LiveUsage(files, u) >= FreeTierLimit

\* The 402 answer of the middleware: the view does not run.
PaymentRequired(u) ==
    /\ resp' = [NoResp EXCEPT !.op = "payment_required", !.user = u,
                              !.usage = LiveUsage(files, u)]
    /\ UNCHANGED <<xvars, files, s3, jobs, task, cver, plan, lcache, inflight, bumper, vlock>>

\* cache_utils.invalidate_user_cache.  cache.incr raises ValueError for a
\* missing key; atomic_cache_version_increment catches only AttributeError and
\* TypeError, so the error reaches invalidate_user_cache, which returns None
\* and leaves the cache as it was.  Otherwise the version is incremented and
\* clear_user_cache_patterns runs: with django-redis delete_pattern removes the
\* user's listings and, by "*_{user_id}_*", the in-flight counter; with
\* LocMemCache none of the fixed keys it deletes is a key of this model.
CacheUtilsInvalidate(u, redis) ==
    IF cver[u] = NoKey
    THEN [cver |-> cver, lcache |-> lcache, inflight |-> inflight]
    ELSE [cver |-> [cver EXCEPT ![u] = @ + 1],
          lcache |-> IF redis THEN UtilsClearPatterns(u) ELSE lcache,
          inflight |-> IF redis THEN [inflight EXCEPT ![u] = 0] ELSE inflight]

\* The loop of MediaFileViewSet.bulk_archive over the loaded rows q.
RECURSIVE ViewArchiveLoop(_, _, _, _, _, _)
ViewArchiveLoop(st, q, u, env, succ, fl) ==
    IF q = <<>> THEN [st |-> st, succeeded |-> succ, failed |-> fl]
    ELSE LET f == Head(q)
             m == st.files[f]
             r == ArchiveFile(st, f, m, u, env[f])
         IN  IF m.status # "uploaded"
             THEN ViewArchiveLoop(st, Tail(q), u, env, succ,
                                  Append(fl, [id |-> f, error |-> "state_conflict"]))
             ELSE IF r.res = "ok"
             THEN ViewArchiveLoop(r.st, Tail(q), u, env, succ \cup {f}, fl)
             ELSE ViewArchiveLoop(r.st, Tail(q), u, env, succ,
                                  Append(fl, [id |-> f, error |-> r.res]))

\* MediaFileViewSet.bulk_archive: no cache invalidation follows the loop.
ViewBulkArchive(u, ids) ==
    /\ Len(jobs) + Cardinality(Candidates(u, ids)) <= MaxJobs
    /\ \E sess \in BOOLEAN :
         IF PlanGate(u, sess) THEN PaymentRequired(u)
         ELSE /\ \E env \in [Candidates(u, ids) -> ArchiveOutcomes] :
                   LET r == ViewArchiveLoop(Store, SetToSeq(Candidates(u, ids)), u, env, {}, <<>>)
                   IN  /\ files' = r.st.files
                       /\ s3' = r.st.s3
                       /\ jobs' = r.st.jobs
                       /\ resp' = [NoResp EXCEPT !.op = "bulk_archive", !.user = u, !.ids = ids,
                                                 !.succeeded = r.succeeded, !.failed = r.failed]
              /\ UNCHANGED <<xvars, task, cver, plan, lcache, inflight, bumper, vlock>>

\* MediaFileService(user).archive_file(media_file) on a row the caller has just
\* loaded (the single-file archive).
ArchiveFileCall(u, f) ==
    /\ Len(jobs) + 1 <= MaxJobs
    /\ f \in Candidates(u, {f})
    /\ \E out \in ArchiveOutcomes :
          LET r == ArchiveFile(Store, f, files[f], u, out)
          IN  /\ files' = r.st.files
              /\ s3' = r.st.s3
              /\ jobs' = r.st.jobs
              /\ resp' = [NoResp EXCEPT
                            !.op = "archive_file", !.user = u, !.ids = {f},
                            !.succeeded = IF r.res = "ok" THEN {f} ELSE {},
                            !.failed = IF r.res = "ok" THEN <<>>
                                       ELSE <<[id |-> f, error |-> r.res]>>]
    /\ UNCHANGED <<xvars, task, cver, plan, lcache, inflight, bumper, vlock>>

\* MediaFileViewSet.bulk_delete: S3Service has no bulk_delete_files, the
\* AttributeError is caught and no object is deleted; the rows in bad fail in
\* the per-row fallback (bad is empty when the queryset update succeeds).
ViewBulkDelete(u, ids) ==
    /\ CacheGetVersion(u) < MaxVersion
    /\ \E sess \in BOOLEAN :
         IF PlanGate(u, sess) THEN PaymentRequired(u)
         ELSE LET c == Candidates(u, ids) IN
              IF c = {}
              THEN /\ resp' = [NoResp EXCEPT !.op = "bulk_delete_none", !.user = u, !.ids = ids]
                   /\ UNCHANGED <<xvars, files, s3, jobs, task, cver, plan, lcache, inflight, bumper, vlock>>
              ELSE \E bad \in SUBSET c, redis \in BOOLEAN :
                     LET inv == CacheUtilsInvalidate(u, redis) IN
                     /\ files' = [f \in DOMAIN files |->
                                    IF f \in c \ bad
                                    THEN [files[f] EXCEPT !.is_deleted = TRUE] ELSE files[f]]
                     /\ cver' = inv.cver
                     /\ lcache' = inv.lcache
                     /\ inflight' = inv.inflight
                     /\ resp' = [NoResp EXCEPT !.op = "bulk_delete", !.user = u, !.ids = ids,
                                               !.succeeded = c \ bad,
                                               !.failed = Entries(bad, "db_update_failed")]
                     /\ UNCHANGED <<xvars, s3, jobs, task, plan, bumper, vlock>>

\* What list_optimized serializes: the user's rows with is_deleted = False.
Listing(u) ==
    {<<f, files[f].status>> : f \in {g \in DOMAIN files : files[g].owner = u /\ ~files[g].is_deleted}}

\* MediaFileViewSet.list_optimized without the _t parameter: the entry under
\* the current version is returned when there is one, otherwise the listing
\* is computed and cached under that version.
ListOptimized(u) ==
    \E sess \in BOOLEAN :
      IF PlanGate(u, sess) THEN PaymentRequired(u)
      ELSE LET v == CacheGetVersion(u) IN
           /\ resp' = [NoResp EXCEPT !.op = "list", !.user = u,
                                     !.listing = IF lcache[u][v].has THEN lcache[u][v].val
                                                 ELSE Listing(u)]
           /\ lcache' = IF lcache[u][v].has THEN lcache
                        ELSE [lcache EXCEPT ![u][v] = [has |-> TRUE, val |-> Listing(u)]]
           /\ UNCHANGED <<xvars, files, s3, jobs, task, cver, plan, inflight, bumper, vlock>>

\* The requests an upload client sends: the sizes of the files of one batch.
UploadBatches == {<<a>> : a \in FileSizes} \cup {<<1, 1>>}
MaxTotalFiles == MaxConcurrentUploads * InflightScale
NoRemaining == 0 - 1
Limit(u) == IF plan[u].active THEN plan[u].limit ELSE FreeTierLimit
Max(a, b) == IF a >= b THEN a ELSE b

RECURSIVE AppendRows(_, _, _, _)
AppendRows(tbl, u, sizes, st) ==
    IF sizes = <<>> THEN tbl
    ELSE AppendRows(Append(tbl, FileRow(u, st, FALSE, "warm", Head(sizes))), u, Tail(sizes), st)

\* MediaFileViewSet.get_presigned_urls, bulk mode with the worker format: the
\* files-in-flight limiter, then one MediaFile row in status 'uploading' per
\* file.  No storage limit is consulted.
GetPresignedUrls(u, sizes) ==
    \E sess \in BOOLEAN :
         IF PlanGate(u, sess) THEN PaymentRequired(u)
         ELSE IF inflight[u] + Len(sizes) > MaxTotalFiles
         THEN /\ resp' = [NoResp EXCEPT !.op = "too_many_inflight", !.user = u]
              /\ UNCHANGED <<xvars, files, s3, jobs, task, cver, plan, lcache, inflight, bumper, vlock>>
         ELSE /\ Len(files) + Len(sizes) <= NumFiles + MaxUploads
              /\ inflight' = [inflight EXCEPT ![u] = @ + Len(sizes)]
              /\ files' = AppendRows(files, u, sizes, "uploading")
              /\ resp' = [NoResp EXCEPT !.op = "presigned", !.user = u,
                                        !.succeeded = (Len(files) + 1)..(Len(files) + Len(sizes))]
              /\ UNCHANGED <<xvars, s3, jobs, task, cver, plan, lcache, bumper, vlock>>

\* The client posts the object of an 'uploading' row to its presigned URL.
ClientPut(f) ==
    /\ f \in DOMAIN files
    /\ files[f].status = "uploading"
    /\ <<f, "warm">> \notin s3
    /\ s3' = s3 \cup {<<f, "warm">>}
    /\ UNCHANGED <<xvars, files, jobs, task, cver, plan, resp, lcache, inflight, bumper, vlock>>

\* MediaFileViewSet.complete_upload_batch: the counter is decremented, every
\* 'uploading' row of the user becomes 'uploaded', the cache is invalidated.
CompleteUploadBatch(u, n) ==
    /\ CacheGetVersion(u) < MaxVersion
    /\ \E sess \in BOOLEAN :
         IF PlanGate(u, sess) THEN PaymentRequired(u)
         ELSE IF n = 0
         THEN /\ resp' = [NoResp EXCEPT !.op = "batch_noop", !.user = u]
              /\ UNCHANGED <<xvars, files, s3, jobs, task, cver, plan, lcache, inflight, bumper, vlock>>
         ELSE \E redis \in BOOLEAN :
                LET flip == {f \in DOMAIN files : /\ files[f].owner = u
                                                  /\ files[f].status = "uploading"
                                                  /\ ~files[f].is_deleted}
                    dec == [inflight EXCEPT ![u] = Max(0, @ - n)]
                    inv == CacheUtilsInvalidate(u, redis)
                IN  /\ files' = [f \in DOMAIN files |->
                                   IF f \in flip THEN [files[f] EXCEPT !.status = "uploaded"]
                                   ELSE files[f]]
                    /\ cver' = inv.cver
                    /\ lcache' = inv.lcache
                    /\ inflight' = IF inv.inflight = inflight THEN dec
                                   ELSE [dec EXCEPT ![u] = 0]
                    /\ resp' = [NoResp EXCEPT !.op = "batch_complete", !.user = u,
                                              !.succeeded = flip]
                    /\ UNCHANGED <<xvars, s3, jobs, task, plan, bumper, vlock>>

\* MediaFileViewSet.complete_multipart_upload: the multipart upload is completed
\* in the object store (ok) and a row in status 'uploaded' is created.  Neither
\* a storage limit nor the cache version is touched.
CompleteMultipartUpload(u, size, ok) ==
    \E sess \in BOOLEAN :
         IF PlanGate(u, sess) THEN PaymentRequired(u)
         ELSE IF ~ok
         THEN /\ resp' = [NoResp EXCEPT !.op = "multipart_failed", !.user = u]
              /\ UNCHANGED <<xvars, files, s3, jobs, task, cver, plan, lcache, inflight, bumper, vlock>>
         ELSE /\ Len(files) + 1 <= NumFiles + MaxUploads
              /\ files' = AppendRows(files, u, <<size>>, "uploaded")
              /\ s3' = s3 \cup {<<Len(files) + 1, "warm">>}
              /\ resp' = [NoResp EXCEPT !.op = "multipart_created", !.user = u,
                                        !.succeeded = {Len(files) + 1}]
              /\ UNCHANGED <<xvars, jobs, task, cver, plan, lcache, inflight, bumper, vlock>>

\* upload_error_handling.validate_storage_limit and StorageLimitError.details
StorageLimitExceeded(current, additional) == current + additional > FreeTierLimit
RemainingSpace(limit, current) == Max(0, limit - current)

\* HibernationPlanService.check_storage_limit: the stored counter of the plan.
CheckStorageLimit(u, additional) == plan[u].used + additional <= plan[u].limit

\* What an upload through the service carries besides its size.
Checksums == {"c1", "c2"}
RelativePaths == {"", "p"}
FileNames == {"a", "b?"}

\* utils.sanitize_filename: the characters / \ : * ? " < > | become _.
SanitizeFilename(nm) == IF nm = "b?" THEN "b_" ELSE nm

\* MediaFileService._check_for_duplicate: the first live row with the
\* checksum is a duplicate when its relative_path is the upload's; otherwise,
\* for an upload with a path, the first live row with that path and the
\* upload's (unsanitized) name.  0 is None.
CheckForDuplicate(tbl, u, ck, rp, nm) ==
    LET live == {f \in DOMAIN tbl : tbl[f].owner = u /\ ~tbl[f].is_deleted}
        byChecksum == Newest({f \in live : tbl[f].checksum = ck})
        byPath == Newest({f \in live : /\ tbl[f].relative_path = rp
                                       /\ tbl[f].original_filename = nm})
    IN  IF byChecksum # 0 /\ tbl[byChecksum].relative_path = rp THEN byChecksum
        ELSE IF rp # "" THEN byPath
        ELSE 0

\* MediaFileService.create_media_file: without a plan the live total is held
\* against the free tier limit (StorageLimitError); with a plan
\* check_rate_limits('upload') holds the plan's stored counter against the
\* plan's size (ValueError, no remaining space in it).  A duplicate found by
\* _check_for_duplicate is returned.  Otherwise the object is uploaded (ok)
\* and the row created in status 'uploaded'.
CreateMediaFile(u, size, ok, ck, rp, nm) ==
    /\ LET live == LiveUsage(files, u)
           figure == IF plan[u].active THEN plan[u].used ELSE live
           dup == CheckForDuplicate(files, u, ck, rp, nm)
       IN  IF ~plan[u].active /\ StorageLimitExceeded(live, size)
           THEN /\ resp' = [NoResp EXCEPT !.op = "storage_limit_error", !.user = u,
                                          !.usage = live,
                                          !.remaining = RemainingSpace(FreeTierLimit, live)]
                /\ UNCHANGED <<files, s3>>
           ELSE IF plan[u].active /\ ~CheckStorageLimit(u, size)
           THEN /\ resp' = [NoResp EXCEPT !.op = "value_error", !.user = u,
                                          !.usage = figure, !.remaining = NoRemaining]
                /\ UNCHANGED <<files, s3>>
           ELSE IF dup # 0
           THEN /\ resp' = [NoResp EXCEPT !.op = "duplicate", !.user = u, !.succeeded = {dup}]
                /\ UNCHANGED <<files, s3>>
           ELSE IF ~ok
           THEN /\ resp' = [NoResp EXCEPT !.op = "upload_failed", !.user = u, !.usage = figure]
                /\ UNCHANGED <<files, s3>>
           ELSE /\ Len(files) + 1 <= NumFiles + MaxUploads
                /\ files' = Append(files, MediaRow(u, "uploaded", FALSE, "warm", size,
                                                   SanitizeFilename(nm), ck, rp))
                /\ s3' = s3 \cup {<<Len(files) + 1, "warm">>}
                /\ resp' = [NoResp EXCEPT !.op = "created", !.user = u, !.usage = figure,
                                          !.succeeded = {Len(files) + 1}]
    /\ UNCHANGED <<xvars, jobs, task, cver, plan, lcache, inflight, bumper, vlock>>

\* HibernationPlanService.get_usage_stats: the stored counter is set to the
\* live total.
GetUsageStats(u) ==
    /\ plan[u].active
    /\ plan' = [plan EXCEPT ![u].used = LiveUsage(files, u)]
    /\ resp' = [NoResp EXCEPT !.op = "usage_stats", !.user = u, !.usage = LiveUsage(files, u)]
    /\ UNCHANGED <<xvars, files, s3, jobs, task, cver, lcache, inflight, bumper, vlock>>

\* ------------------------------------------------------------------ Spec
InitStatuses == {"uploaded", "archived"}
KeyOf(st) == IF st = "archived" THEN "arch" ELSE "warm"
PlanLimit == 4

Init ==
    /\ \E sts \in [FileIds -> InitStatuses] :
          /\ sts[NumFiles] = "uploaded"
          /\ files = [f \in FileIds |-> FileRow(Owner(f), sts[f], FALSE, KeyOf(sts[f]), 1)]
          /\ s3 = {<<f, KeyOf(sts[f])>> : f \in FileIds}
    /\ jobs = <<>>
    /\ task = [t \in TaskIds |-> IdleTask]
    /\ cver = [u \in Users |-> NoKey]
    /\ \E a \in BOOLEAN :
          plan = [u \in Users |-> [active |-> (a /\ u = "u1"), used |-> 0, limit |-> PlanLimit]]
    /\ resp = NoResp
    /\ lcache = [u \in Users |-> [v \in 0..MaxVersion |-> NoEntry]]
    /\ inflight = [u \in Users |-> 0]
    /\ bumper = [p \in BumpIds |-> IdleBumper]
    /\ vlock = FALSE
    /\ InitRest

Next ==
    \/ \E t \in TaskIds, u \in TaskUsers, ids \in IdSets : BulkDeleteLoad(t, u, ids)
    \/ \E t \in TaskIds : BulkDeleteS3Batch(t)
    \/ \E t \in TaskIds : BulkDeleteS3Fallback(t)
    \/ \E t \in TaskIds : BulkDeleteDb(t)
    \/ \E t \in TaskIds : BulkDeleteDbFallback(t)
    \/ \E t \in TaskIds, u \in TaskUsers, ids \in IdSets : BulkArchiveLoad(t, u, ids)
    \/ \E t \in TaskIds : BulkArchiveBegin(t)
    \/ \E t \in TaskIds : BulkArchiveCommit(t)
    \/ \E t \in TaskIds : BulkArchiveDb(t)
    \/ \E t \in TaskIds : BulkArchiveDbFallback(t)
    \/ \E t \in TaskIds, u \in TaskUsers, ids \in IdSets : BulkRestoreLoad(t, u, ids)
    \/ \E t \in TaskIds : BulkRestoreLoop(t)
    \/ \E t \in TaskIds : BulkFinish(t)

Spec == Init /\ [][Next]_vars

\* The view layer on its own: every handler is one step.
InitView ==
    /\ \E sts \in [FileIds -> InitStatuses] :
          /\ sts[NumFiles] = "uploaded"
          /\ files = [f \in FileIds |-> FileRow(Owner(f), sts[f], FALSE, KeyOf(sts[f]), 1)]
          /\ s3 = {<<f, KeyOf(sts[f])>> : f \in FileIds}
    /\ jobs = <<>>
    /\ task = [t \in TaskIds |-> IdleTask]
    /\ \E v \in {NoKey, 1} : cver = [u \in Users |-> v]
    /\ \E a \in BOOLEAN :
          plan = [u \in Users |-> [active |-> (a /\ u = "u1"), used |-> 0, limit |-> PlanLimit]]
    /\ resp = NoResp
    /\ lcache = [u \in Users |-> [v \in 0..MaxVersion |-> NoEntry]]
    /\ inflight = [u \in Users |-> 0]
    /\ bumper = [p \in BumpIds |-> IdleBumper]
    /\ vlock = FALSE
    /\ InitRest

NextView ==
    \/ \E u \in TaskUsers, ids \in IdSets : ViewBulkArchive(u, ids)
    \/ \E u \in TaskUsers, ids \in IdSets : ViewBulkDelete(u, ids)
    \/ \E u \in TaskUsers : ListOptimized(u)
    \/ \E u \in TaskUsers, f \in FileIds : ArchiveFileCall(u, f)

SpecView == InitView /\ [][NextView]_vars

\* The upload paths and the quota gate on their own.
InitUpload ==
    /\ files = [f \in FileIds |-> FileRow(Owner(f), "uploaded", FALSE, "warm", 1)]
    /\ s3 = {<<f, "warm">> : f \in FileIds}
    /\ jobs = <<>>
    /\ task = [t \in TaskIds |-> IdleTask]
    /\ \E v \in {NoKey, 1} : cver = [u \in Users |-> v]
    /\ \E a \in BOOLEAN :
          plan = [u \in Users |-> [active |-> (a /\ u = "u1"), used |-> 0, limit |-> PlanLimit]]
    /\ resp = NoResp
    /\ lcache = [u \in Users |-> [v \in 0..MaxVersion |-> NoEntry]]
    /\ inflight = [u \in Users |-> 0]
    /\ bumper = [p \in BumpIds |-> IdleBumper]
    /\ vlock = FALSE
    /\ InitRest

NextUpload ==
    \/ \E u \in TaskUsers, sizes \in UploadBatches : GetPresignedUrls(u, sizes)
    \/ \E f \in (NumFiles + 1)..(NumFiles + MaxUploads) : ClientPut(f)
    \/ \E u \in TaskUsers, n \in 0..MaxUploads : CompleteUploadBatch(u, n)
    \/ \E u \in TaskUsers, size \in FileSizes, ok \in BOOLEAN : CompleteMultipartUpload(u, size, ok)
    \/ \E u \in TaskUsers, size \in FileSizes, ok \in BOOLEAN,
          ck \in Checksums, rp \in RelativePaths, nm \in FileNames :
          CreateMediaFile(u, size, ok, ck, rp, nm)
    \/ \E u \in TaskUsers : GetUsageStats(u)

SpecUpload == InitUpload /\ [][NextUpload]_vars

\* ------------------------------------- the cache invalidations, step by step
\* One invalidation of the first user's cache by each bumper; every cache call
\* (get, set, add, incr, delete) is one step.
BumpUser == "u1"
MaxRetries == 5
BumpKinds == {"incr", "fallback", "utils", "folder"}

\* An invalidation begins.  "incr": cache_utils on a backend whose incr works
\* (django-redis, LocMemCache); "fallback": cache_utils when incr raises
\* AttributeError or TypeError; "utils": utils.invalidate_user_cache;
\* "folder": the get and set at the end of create_folder.
BumpStart(p, kind) ==
    /\ bumper[p].pc = "idle"
    /\ bumper' = [bumper EXCEPT ![p] =
                    [IdleBumper EXCEPT !.kind = kind,
                                       !.v0 = CacheGetVersion(BumpUser),
                                       !.pc = CASE kind = "incr" -> "incr"
                                                [] kind = "fallback" -> "fget"
                                                [] OTHER -> "get"]]
    /\ UNCHANGED <<xvars, files, s3, jobs, task, cver, plan, resp, lcache, inflight, vlock>>

\* cache.incr(cache_version_key): ValueError for a missing key, which
\* invalidate_user_cache swallows; otherwise the atomic increment.
BumpIncr(p) ==
    /\ bumper[p].pc = "incr"
    /\ cver' = IF cver[BumpUser] = NoKey THEN cver ELSE [cver EXCEPT ![BumpUser] = @ + 1]
    /\ bumper' = [bumper EXCEPT ![p].pc = "done"]
    /\ UNCHANGED <<xvars, files, s3, jobs, task, plan, resp, lcache, inflight, vlock>>

\* current_version = cache.get(key, 0)
BumpGet(p) ==
    /\ bumper[p].pc = "get"
    /\ bumper' = [bumper EXCEPT ![p].pc = "set", ![p].v = CacheGetVersion(BumpUser)]
    /\ UNCHANGED <<xvars, files, s3, jobs, task, cver, plan, resp, lcache, inflight, vlock>>

\* cache.set(key, current_version + 1, timeout)
BumpSet(p) ==
    /\ bumper[p].pc = "set"
    /\ cver' = [cver EXCEPT ![BumpUser] = bumper[p].v + 1]
    /\ bumper' = [bumper EXCEPT ![p].pc = "done"]
    /\ UNCHANGED <<xvars, files, s3, jobs, task, plan, resp, lcache, inflight, vlock>>

\* The fallback loop: current_version = cache.get(key, 0)
FallbackGet(p) ==
    /\ bumper[p].pc = "fget"
    /\ bumper' = [bumper EXCEPT ![p].pc = "fadd", ![p].v = CacheGetVersion(BumpUser)]
    /\ UNCHANGED <<xvars, files, s3, jobs, task, cver, plan, resp, lcache, inflight, vlock>>

\* cache.add(lock, "1", 1): taken, or the attempt is over; after max_retries
\* attempts the loop ends and the plain get and set follow.
FallbackAdd(p) ==
    /\ bumper[p].pc = "fadd"
    /\ IF ~vlock
       THEN /\ vlock' = TRUE
            /\ bumper' = [bumper EXCEPT ![p].pc = "fcheck"]
       ELSE /\ vlock' = vlock
            /\ bumper' = [bumper EXCEPT
                            ![p].attempt = @ + 1,
                            ![p].pc = IF bumper[p].attempt + 1 = MaxRetries
                                      THEN "get" ELSE "fget"]
    /\ UNCHANGED <<xvars, files, s3, jobs, task, cver, plan, resp, lcache, inflight>>

\* check_version = cache.get(key, 0)
FallbackCheck(p) ==
    /\ bumper[p].pc = "fcheck"
    /\ bumper' = [bumper EXCEPT ![p].pc = "fset",
                                ![p].v = IF CacheGetVersion(BumpUser) = bumper[p].v
                                         THEN bumper[p].v ELSE CacheGetVersion(BumpUser)]
    /\ UNCHANGED <<xvars, files, s3, jobs, task, cver, plan, resp, lcache, inflight, vlock>>

\* cache.set(key, new_version, timeout) in either branch of the double check
FallbackSet(p) ==
    /\ bumper[p].pc = "fset"
    /\ cver' = [cver EXCEPT ![BumpUser] = bumper[p].v + 1]
    /\ bumper' = [bumper EXCEPT ![p].pc = "funlock"]
    /\ UNCHANGED <<xvars, files, s3, jobs, task, plan, resp, lcache, inflight, vlock>>

\* finally: cache.delete(lock)
FallbackUnlock(p) ==
    /\ bumper[p].pc = "funlock"
    /\ vlock' = FALSE
    /\ bumper' = [bumper EXCEPT ![p].pc = "done"]
    /\ UNCHANGED <<xvars, files, s3, jobs, task, cver, plan, resp, lcache, inflight>>

\* The lock key was added with a timeout of one second.
LockExpires ==
    /\ vlock
    /\ vlock' = FALSE
    /\ UNCHANGED <<xvars, files, s3, jobs, task, cver, plan, resp, lcache, inflight, bumper>>

InitCache ==
    /\ files = [f \in FileIds |-> FileRow(Owner(f), "uploaded", FALSE, "warm", 1)]
    /\ s3 = {<<f, "warm">> : f \in FileIds}
    /\ jobs = <<>>
    /\ task = [t \in TaskIds |-> IdleTask]
    /\ \E v \in {NoKey, 0, 1} : cver = [u \in Users |-> v]
    /\ plan = [u \in Users |-> [active |-> FALSE, used |-> 0, limit |-> PlanLimit]]
    /\ resp = NoResp
    /\ lcache = [u \in Users |-> [v \in 0..MaxVersion |-> NoEntry]]
    /\ inflight = [u \in Users |-> 0]
    /\ bumper = [p \in BumpIds |-> IdleBumper]
    /\ vlock = FALSE
    /\ InitRest

NextCache ==
    \/ \E p \in BumpIds, kind \in BumpKinds : BumpStart(p, kind)
    \/ \E p \in BumpIds : BumpIncr(p)
    \/ \E p \in BumpIds : BumpGet(p)
    \/ \E p \in BumpIds : BumpSet(p)
    \/ \E p \in BumpIds : FallbackGet(p)
    \/ \E p \in BumpIds : FallbackAdd(p)
    \/ \E p \in BumpIds : FallbackCheck(p)
    \/ \E p \in BumpIds : FallbackSet(p)
    \/ \E p \in BumpIds : FallbackUnlock(p)
    \/ LockExpires

SpecCache == InitCache /\ [][NextCache]_vars

\* ------------------------------------------------- the uppy upload app
MaxSessions == 1
MaxUppyUploads == 2
MaxCompletes == 3
UploadNames == {"a", "A"}
TotalFiles == {1, 2}
NoSession == 0

\* S3UploadView.post builds the key from a fresh uuid: one key per UploadedFile.
UppyKey(k) == IF k = 1 THEN "up1" ELSE IF k = 2 THEN "up2" ELSE "up3"

\* original_filename__iexact compares without case.
Lower(nm) == IF nm = "A" THEN "a" ELSE nm

\* create_upload_session: a session in status 'pending' with the client's
\* total_files and no uploaded file.
CreateUploadSession(u, total) ==
    /\ Len(sessions) < MaxSessions
    /\ sessions' = Append(sessions, [user |-> u, total_files |-> total,
                                     uploaded_files |-> 0, status |-> "pending"])
    /\ resp' = [NoResp EXCEPT !.op = "session_created", !.user = u,
                              !.succeeded = {Len(sessions) + 1}]
    /\ UNCHANGED <<files, s3, jobs, task, cver, plan, lcache, inflight, bumper, vlock,
                   uploads, preq, now>>

\* UploadSession.objects.get(session_id=..., user=...), None when there is none.
SessionOf(u, sid) ==
    IF sid \in DOMAIN sessions /\ sessions[sid].user = u THEN sid ELSE NoSession

\* S3UploadView.post: the presigned POST is generated and the UploadedFile row
\* created, unprocessed, tied to the session the request names.
S3Upload(u, nm, sz, sid) ==
    /\ Len(uploads) < MaxUppyUploads
    /\ uploads' = Append(uploads,
                         [user |-> u, original_name |-> nm, file_size |-> sz,
                          relative_path |-> "", s3_key |-> UppyKey(Len(uploads) + 1),
                          upload_session |-> SessionOf(u, sid), is_processed |-> FALSE])
    /\ resp' = [NoResp EXCEPT !.op = "uppy_presigned", !.user = u, !.ids = {Len(uploads) + 1}]
    /\ UNCHANGED <<files, s3, jobs, task, cver, plan, lcache, inflight, bumper, vlock,
                   sessions, preq, now>>

\* The first hit of one lookup, else that of the next.
OrElse(a, b) == IF a # 0 THEN a ELSE b

\* UploadedFile.to_media_file, the lookup: by s3_key, then by name and size,
\* then by name without case and size; soft-deleted rows are found too.
ExistingMediaFile(tbl, up) ==
    LET mine == {f \in DOMAIN tbl : tbl[f].owner = up.user}
        byKey == {f \in mine : tbl[f].s3_key = up.s3_key}
        byName == {f \in mine : /\ tbl[f].original_filename = up.original_name
                                /\ tbl[f].file_size = up.file_size}
        byLower == {f \in mine : /\ Lower(tbl[f].original_filename) = Lower(up.original_name)
                                 /\ tbl[f].file_size = up.file_size}
    IN  OrElse(Newest(byKey), OrElse(Newest(byName), Newest(byLower)))

\* UploadedFile.to_media_file: [tbl, id], the table afterwards and the row returned.
ToMediaFile(tbl, up) ==
    LET e == ExistingMediaFile(tbl, up) IN
    IF e # 0
    THEN [tbl |-> IF tbl[e].is_deleted
                  THEN [tbl EXCEPT ![e].is_deleted = FALSE, ![e].s3_key = up.s3_key,
                                   ![e].relative_path = up.relative_path,
                                   ![e].status = "uploaded"]
                  ELSE tbl,
          id |-> e]
    ELSE [tbl |-> Append(tbl, MediaRow(up.user, "uploaded", FALSE, up.s3_key, up.file_size,
                                       up.original_name, "none", up.relative_path)),
          id |-> Len(tbl) + 1]

\* S3UploadCompleteView.post: the UploadedFile of the user is marked processed,
\* synced to a MediaFile, and the session's uploaded count is advanced; at
\* total_files the session is completed.
S3UploadComplete(u, k) ==
    IF k \notin DOMAIN uploads \/ uploads[k].user # u
    THEN /\ resp' = [NoResp EXCEPT !.op = "uppy_not_found", !.user = u, !.ids = {k}]
         /\ UNCHANGED <<files, s3, jobs, task, cver, plan, lcache, inflight, bumper, vlock,
                        uploads, sessions, preq, now>>
    ELSE LET up == uploads[k]
             sync == ToMediaFile(files, up)
             sid == up.upload_session
             count == sessions[sid].uploaded_files + 1
         IN  /\ Len(sync.tbl) <= NumFiles + MaxUppyUploads
             /\ sid # NoSession => sessions[sid].uploaded_files < MaxCompletes
             /\ uploads' = [uploads EXCEPT ![k].is_processed = TRUE]
             /\ files' = sync.tbl
             /\ sessions' = IF sid = NoSession THEN sessions
                            ELSE [sessions EXCEPT
                                    ![sid].uploaded_files = count,
                                    ![sid].status = IF count >= sessions[sid].total_files
                                                    THEN "completed" ELSE @]
             /\ resp' = [NoResp EXCEPT !.op = "uppy_complete", !.user = u, !.ids = {k},
                                       !.succeeded = {sync.id}]
             /\ UNCHANGED <<s3, jobs, task, cver, plan, lcache, inflight, bumper, vlock,
                            preq, now>>

\* UploadValidationMiddleware around a POST to /api/uppy/ (view is the step
\* of the view).  sess: Django's AuthenticationMiddleware found a session
\* user; with token authentication alone request.user is anonymous in
\* process_request and the 429 check is skipped.  process_response runs for
\* every POST, the 429 included, after the view has authenticated the user,
\* and writes the counter read + 1.  The counter is kept up to MaxCounter,
\* above the limit, where all values act alike.
MaxCounter == 4

CountPost(u) ==
    [concurrent EXCEPT ![u] = IF @ < MaxCounter THEN @ + 1 ELSE @]

UploadValidation(u, sess, view) ==
    /\ concurrent' = CountPost(u)
    /\ IF sess /\ concurrent[u] >= MaxConcurrentUploads
       THEN /\ resp' = [NoResp EXCEPT !.op = "too_many_uploads", !.user = u,
                                      !.usage = concurrent[u]]
            /\ UNCHANGED <<files, s3, jobs, task, cver, plan, lcache, inflight, bumper,
                           vlock, uploads, sessions, preq, now>>
       ELSE view

\* A PUT or PATCH to an upload path: no view there accepts the method, the
\* answer is 405 and process_response leaves the counter alone.
UppyPut(u) ==
    /\ resp' = [NoResp EXCEPT !.op = "method_not_allowed", !.user = u]
    /\ UNCHANGED <<xvars, files, s3, jobs, task, cver, plan, lcache, inflight, bumper, vlock>>

\* The uppy upload app on its own; the first file may have been soft-deleted.
InitUppy ==
    /\ \E d \in BOOLEAN :
          files = [f \in FileIds |-> FileRow(Owner(f), "uploaded", (d /\ f = 1), "warm", 1)]
    /\ s3 = {<<f, "warm">> : f \in FileIds}
    /\ jobs = <<>>
    /\ task = [t \in TaskIds |-> IdleTask]
    /\ cver = [u \in Users |-> 1]
    /\ plan = [u \in Users |-> [active |-> FALSE, used |-> 0, limit |-> PlanLimit]]
    /\ resp = NoResp
    /\ lcache = [u \in Users |-> [v \in 0..MaxVersion |-> NoEntry]]
    /\ inflight = [u \in Users |-> 0]
    /\ bumper = [p \in BumpIds |-> IdleBumper]
    /\ vlock = FALSE
    /\ InitRest

\* The clients authenticate with their token only.
NextUppy ==
    \/ \E u \in Users, total \in TotalFiles :
          UploadValidation(u, FALSE, CreateUploadSession(u, total))
    \/ \E u \in Users, nm \in UploadNames, sz \in FileSizes, sid \in 0..MaxSessions :
          UploadValidation(u, FALSE, S3Upload(u, nm, sz, sid))
    \/ \E u \in Users, k \in 1..MaxUppyUploads :
          UploadValidation(u, FALSE, S3UploadComplete(u, k))

SpecUppy == InitUppy /\ [][NextUppy]_vars

\* S3UploadCompleteView.post up to `session = uploaded_file.upload_session`:
\* the UploadedFile of the user is looked up and, inside the transaction, its
\* row is written (a second request for the same row waits for the commit)
\* and the session row is loaded into the request, without a lock.
S3UploadCompleteRead(r, u, k) ==
    /\ preq[r].pc = "idle"
    /\ IF k \notin DOMAIN uploads \/ uploads[k].user # u
       THEN /\ resp' = [NoResp EXCEPT !.op = "uppy_not_found", !.user = u, !.ids = {k}]
            /\ concurrent' = CountPost(u)
            /\ UNCHANGED preq
       ELSE /\ \A q \in ReqIds : preq[q].pc = "session" => preq[q].upload # k
            /\ preq' = [preq EXCEPT ![r] =
                          [IdleReq EXCEPT
                             !.pc = "session", !.user = u, !.upload = k,
                             !.snap = IF uploads[k].upload_session = NoSession THEN NoSnap
                                      ELSE sessions[uploads[k].upload_session]]]
            /\ UNCHANGED <<resp, concurrent>>
    /\ UNCHANGED <<files, s3, jobs, task, cver, plan, lcache, inflight, bumper, vlock,
                   uploads, sessions, now>>

\* The rest of the handler: uploaded_files += 1 on the loaded instance,
\* 'completed' at total_files, session.save() writing every column from the
\* instance, and the commit, which makes the transaction's writes visible.
S3UploadCompleteSave(r) ==
    /\ preq[r].pc = "session"
    /\ LET k == preq[r].upload
           up == uploads[k]
           sync == ToMediaFile(files, up)
           sid == up.upload_session
           count == preq[r].snap.uploaded_files + 1
       IN  /\ Len(sync.tbl) <= NumFiles + MaxUppyUploads
           /\ uploads' = [uploads EXCEPT ![k].is_processed = TRUE]
           /\ files' = sync.tbl
           /\ sessions' = IF sid = NoSession THEN sessions
                          ELSE [sessions EXCEPT
                                  ![sid] = [preq[r].snap EXCEPT
                                              !.uploaded_files = count,
                                              !.status = IF count >= preq[r].snap.total_files
                                                         THEN "completed" ELSE @]]
           /\ resp' = [NoResp EXCEPT !.op = "uppy_complete", !.user = preq[r].user,
                                     !.ids = {k}, !.succeeded = {sync.id}]
    /\ preq' = [preq EXCEPT ![r] = IdleReq]
    /\ concurrent' = CountPost(preq[r].user)
    /\ UNCHANGED <<s3, jobs, task, cver, plan, lcache, inflight, bumper, vlock, now>>

\* Concurrent completion requests; the client reports each file once.
NextSession ==
    \/ \E u \in Users, total \in TotalFiles :
          UploadValidation(u, FALSE, CreateUploadSession(u, total))
    \/ \E u \in Users, nm \in UploadNames, sz \in FileSizes, sid \in 0..MaxSessions :
          UploadValidation(u, FALSE, S3Upload(u, nm, sz, sid))
    \/ \E r \in ReqIds, u \in Users, k \in 1..MaxUppyUploads :
          /\ k \in DOMAIN uploads => ~uploads[k].is_processed
          /\ S3UploadCompleteRead(r, u, k)
    \/ \E r \in ReqIds : S3UploadCompleteSave(r)

SpecSession == InitUppy /\ [][NextSession]_vars

\* Uppy uploads of users one of whose files is in the trash.
InitTrash ==
    /\ \E d \in FileIds :
          files = [f \in FileIds |-> FileRow(Owner(f), "uploaded", f = d, "warm", 1)]
    /\ s3 = {<<f, "warm">> : f \in FileIds}
    /\ jobs = <<>>
    /\ task = [t \in TaskIds |-> IdleTask]
    /\ cver = [u \in Users |-> 1]
    /\ plan = [u \in Users |-> [active |-> FALSE, used |-> 0, limit |-> PlanLimit]]
    /\ resp = NoResp
    /\ lcache = [u \in Users |-> [v \in 0..MaxVersion |-> NoEntry]]
    /\ inflight = [u \in Users |-> 0]
    /\ bumper = [p \in BumpIds |-> IdleBumper]
    /\ vlock = FALSE
    /\ InitRest

NextTrash ==
    \/ \E u \in Users, nm \in UploadNames, sz \in FileSizes :
          UploadValidation(u, FALSE, S3Upload(u, nm, sz, NoSession))
    \/ \E u \in Users, k \in 1..MaxUppyUploads :
          UploadValidation(u, FALSE, S3UploadComplete(u, k))

SpecTrash == InitTrash /\ [][NextTrash]_vars

\* Upload requests of token clients and of browsers with a Django session.
NextThrottle ==
    \/ \E u \in Users, sess \in BOOLEAN, nm \in UploadNames, sz \in FileSizes :
          UploadValidation(u, sess, S3Upload(u, nm, sz, NoSession))
    \/ \E u \in Users, sess \in BOOLEAN, k \in 1..MaxUppyUploads :
          UploadValidation(u, sess, S3UploadComplete(u, k))
    \/ \E u \in Users : UppyPut(u)

SpecThrottle == InitUppy /\ [][NextThrottle]_vars

\* ------------------------------- create_media_file, duplicate suppression
\* Uploads through the service on their own; the first file has been uploaded
\* through it before and carries a checksum.
InitDup ==
    /\ files = [f \in FileIds |->
                  IF f = 1 THEN MediaRow(Owner(f), "uploaded", FALSE, "warm", 1, "a", "c1", "")
                  ELSE FileRow(Owner(f), "uploaded", FALSE, "warm", 1)]
    /\ s3 = {<<f, "warm">> : f \in FileIds}
    /\ jobs = <<>>
    /\ task = [t \in TaskIds |-> IdleTask]
    /\ cver = [u \in Users |-> 1]
    /\ \E a \in BOOLEAN :
          plan = [u \in Users |-> [active |-> (a /\ u = "u1"), used |-> 0, limit |-> PlanLimit]]
    /\ resp = NoResp
    /\ lcache = [u \in Users |-> [v \in 0..MaxVersion |-> NoEntry]]
    /\ inflight = [u \in Users |-> 0]
    /\ bumper = [p \in BumpIds |-> IdleBumper]
    /\ vlock = FALSE
    /\ InitRest

NextDup ==
    \E u \in Users, size \in FileSizes, ok \in BOOLEAN,
       ck \in Checksums, rp \in RelativePaths, nm \in FileNames :
       CreateMediaFile(u, size, ok, ck, rp, nm)

SpecDup == InitDup /\ [][NextDup]_vars

\* ------------------------- get_presigned_urls, the limiter step by step
\* The handler up to the check: the middleware, then cache.get(inflight_key)
\* or 0 and the comparison with the ceiling; a request over it is answered 429.
PresignRead(r, u, sizes) ==
    /\ preq[r].pc = "idle"
    /\ \E sess \in BOOLEAN :
         IF PlanGate(u, sess) THEN PaymentRequired(u)
         ELSE IF inflight[u] + Len(sizes) > MaxTotalFiles
         THEN /\ resp' = [NoResp EXCEPT !.op = "too_many_inflight", !.user = u]
              /\ preq' = [preq EXCEPT ![r].pc = "done"]
              /\ UNCHANGED <<files, s3, jobs, task, cver, plan, lcache, inflight, bumper, vlock,
                             uploads, sessions, now, concurrent>>
         ELSE /\ preq' = [preq EXCEPT ![r] = [IdleReq EXCEPT !.pc = "set", !.user = u,
                                                             !.sizes = sizes,
                                                             !.cur = inflight[u]]]
              /\ UNCHANGED <<files, s3, jobs, task, cver, plan, resp, lcache, inflight, bumper,
                             vlock, uploads, sessions, now, concurrent>>

\* The handler from cache.set(inflight_key, current_files + len(files)) on:
\* the counter is written from the value read before, one 'uploading' row is
\* created per file and the URLs are returned.
PresignSet(r) ==
    /\ preq[r].pc = "set"
    /\ LET u == preq[r].user
           sizes == preq[r].sizes
       IN  /\ inflight' = [inflight EXCEPT ![u] = preq[r].cur + Len(sizes)]
           /\ files' = AppendRows(files, u, sizes, "uploading")
           /\ resp' = [NoResp EXCEPT !.op = "presigned", !.user = u,
                                     !.succeeded = (Len(files) + 1)..(Len(files) + Len(sizes))]
    /\ preq' = [preq EXCEPT ![r].pc = "done"]
    /\ UNCHANGED <<s3, jobs, task, cver, plan, lcache, bumper, vlock, uploads, sessions, now,
                   concurrent>>

\* MediaFileViewSet.abort_multipart_upload for the upload opened for row f:
\* S3Service.abort_multipart_upload is called with the key and upload id the
\* client names (ok: the object store accepts the abort); no row is read or
\* written.
AbortMultipartUpload(u, f, ok) ==
    /\ f \in DOMAIN files
    /\ files[f].owner = u
    /\ files[f].status = "uploading"
    /\ resp' = [NoResp EXCEPT !.op = IF ok THEN "abort" ELSE "abort_failed",
                              !.user = u, !.ids = {f}]
    /\ UNCHANGED <<xvars, files, s3, jobs, task, cver, plan, lcache, inflight, bumper, vlock>>

\* MediaFileViewSet.mark_upload_complete: the 'uploading' live rows of the user
\* among file_ids become 'uploaded'; 403 when an id is not a row of the user,
\* else the cache is invalidated.
MarkUploadComplete(u, ids) ==
    /\ CacheGetVersion(u) < MaxVersion
    /\ LET flip == {f \in ids \cap DOMAIN files : /\ files[f].owner = u
                                                  /\ files[f].status = "uploading"
                                                  /\ ~files[f].is_deleted}
           mine == {f \in ids \cap DOMAIN files : files[f].owner = u}
       IN  /\ files' = [f \in DOMAIN files |->
                          IF f \in flip THEN [files[f] EXCEPT !.status = "uploaded"]
                          ELSE files[f]]
           /\ IF mine # ids
              THEN /\ resp' = [NoResp EXCEPT !.op = "mark_forbidden", !.user = u, !.ids = ids]
                   /\ UNCHANGED <<cver, lcache, inflight>>
              ELSE \E redis \in BOOLEAN :
                     LET inv == CacheUtilsInvalidate(u, redis) IN
                     /\ cver' = inv.cver
                     /\ lcache' = inv.lcache
                     /\ inflight' = inv.inflight
                     /\ resp' = [NoResp EXCEPT !.op = "mark_complete", !.user = u,
                                               !.ids = ids, !.succeeded = flip]
    /\ UNCHANGED <<xvars, s3, jobs, task, plan, bumper, vlock>>

\* The batch upload flow: URLs are issued, objects posted, uploads aborted or
\* reported complete by batch or by id.
UploadIdSets == SUBSET ((NumFiles + 1)..(NumFiles + MaxUploads)) \ {{}}

NextBatch ==
    \/ \E u \in TaskUsers, sizes \in UploadBatches : GetPresignedUrls(u, sizes)
    \/ \E f \in (NumFiles + 1)..(NumFiles + MaxUploads) : ClientPut(f)
    \/ \E u \in TaskUsers, f \in (NumFiles + 1)..(NumFiles + MaxUploads), ok \in BOOLEAN :
          AbortMultipartUpload(u, f, ok)
    \/ \E u \in TaskUsers, n \in 0..MaxUploads : CompleteUploadBatch(u, n)
    \/ \E u \in TaskUsers, ids \in UploadIdSets : MarkUploadComplete(u, ids)

SpecBatch == InitUpload /\ [][NextBatch]_vars

\* The whole of get_presigned_urls for any batch: the limiter (429, or the
\* counter is set to current + len(files)), then "Max 1000 files per batch"
\* (400), then S3Service(request.user), whose failure is answered 500 by the
\* outer handler, then one row per file.  MaxBatchFiles stands for the 1000.
MaxBatchFiles == 2
BigBatch == [i \in 1..(MaxBatchFiles + 1) |-> 1]
PresignOutcomes == {"ok", "service_error"}

GetPresignedUrlsChecked(u, sizes, out) ==
    \E sess \in BOOLEAN :
         IF PlanGate(u, sess) THEN PaymentRequired(u)
         ELSE IF inflight[u] + Len(sizes) > MaxTotalFiles
         THEN /\ resp' = [NoResp EXCEPT !.op = "too_many_inflight", !.user = u]
              /\ UNCHANGED <<xvars, files, s3, jobs, task, cver, plan, lcache, inflight, bumper, vlock>>
         ELSE /\ inflight' = [inflight EXCEPT ![u] = @ + Len(sizes)]
              /\ IF Len(sizes) > MaxBatchFiles
                 THEN /\ resp' = [NoResp EXCEPT !.op = "batch_too_large", !.user = u]
                      /\ UNCHANGED files
                 ELSE IF out = "service_error"
                 THEN /\ resp' = [NoResp EXCEPT !.op = "presign_failed", !.user = u]
                      /\ UNCHANGED files
                 ELSE /\ Len(files) + Len(sizes) <= NumFiles + MaxUploads
                      /\ files' = AppendRows(files, u, sizes, "uploading")
                      /\ resp' = [NoResp EXCEPT
                                    !.op = "presigned", !.user = u,
                                    !.succeeded = (Len(files) + 1)..(Len(files) + Len(sizes))]
              /\ UNCHANGED <<xvars, s3, jobs, task, cver, plan, lcache, bumper, vlock>>

NextPresign ==
    \/ \E u \in TaskUsers, sizes \in UploadBatches \cup {BigBatch}, out \in PresignOutcomes :
          GetPresignedUrlsChecked(u, sizes, out)
    \/ \E f \in (NumFiles + 1)..(NumFiles + MaxUploads) : ClientPut(f)
    \/ \E u \in TaskUsers, n \in 0..MaxUploads : CompleteUploadBatch(u, n)

SpecPresign == InitUpload /\ [][NextPresign]_vars

\* Concurrent get_presigned_urls requests and the batch completions.
NextLimiter ==
    \/ \E r \in ReqIds, u \in TaskUsers, sizes \in UploadBatches : PresignRead(r, u, sizes)
    \/ \E r \in ReqIds : PresignSet(r)
    \/ \E u \in TaskUsers, n \in 0..MaxUploads : CompleteUploadBatch(u, n)

SpecLimiter == InitUpload /\ [][NextLimiter]_vars

\* ------------------------------------ auto-hibernation, restore and sweeps
MaxTime == 3
StuckTimeout == 1
StandardHours == 2
MaxHibJobs == 4
NonTerminal == {"pending", "in_progress"}

\* The loop of Command.process_user_hibernation over the candidates q: a job
\* is created in_progress for the file, then archive_file is called, which
\* creates its own job; an exception of archive_file is printed and the loop
\* goes on.  The job created here is not written again.
RECURSIVE HibernateLoop(_, _, _, _)
HibernateLoop(st, q, u, env) ==
    IF q = <<>> THEN st
    ELSE LET f == Head(q)
             withJob == [st EXCEPT !.jobs = Append(@, JobRow(f, u, "archive", "in_progress"))]
             r == ArchiveFile(withJob, f, st.files[f], u, env[f])
         IN  HibernateLoop(r.st, Tail(q), u, env)

\* manage.py auto_hibernate for one user, not a dry run: cand are the
\* 'uploaded' live files of the user that are large and idle enough.
AutoHibernate(u) ==
    /\ \E cand \in SUBSET CandidatesWithStatus(u, FileIds, "uploaded") :
          /\ cand # {}
          /\ \E env \in [cand -> ArchiveOutcomes] :
                LET r == HibernateLoop(Store, SetToSeq(cand), u, env)
                IN  /\ Len(r.jobs) <= MaxHibJobs
                    /\ files' = r.files
                    /\ s3' = r.s3
                    /\ jobs' = r.jobs
          /\ resp' = [NoResp EXCEPT !.op = "auto_hibernate", !.user = u, !.ids = cand]
    /\ UNCHANGED <<xvars, task, cver, plan, lcache, inflight, bumper, vlock>>

\* MediaFileViewSet.bulk_restore: every live file of the user among the ids
\* is tried; restore_file raises for each, so none is started.
ViewBulkRestore(u, ids) ==
    \E sess \in BOOLEAN :
      IF PlanGate(u, sess) THEN PaymentRequired(u)
      ELSE /\ resp' = [NoResp EXCEPT
                         !.op = "bulk_restore", !.user = u, !.ids = ids,
                         !.failed = [i \in 1..Cardinality(Candidates(u, ids)) |->
                                       LET f == SetToSeq(Candidates(u, ids))[i]
                                       IN  [id |-> f, error |-> RestoreFile(files[f], u)]]]
           /\ UNCHANGED <<xvars, files, s3, jobs, task, cver, plan, lcache, inflight, bumper, vlock>>

\* Time passes.
Tick ==
    /\ now < MaxTime
    /\ now' = now + 1
    /\ UNCHANGED <<files, s3, jobs, task, cver, plan, resp, lcache, inflight, bumper, vlock,
                   uploads, sessions, preq, concurrent>>

\* cleanup_stuck_jobs: the jobs in status 'pending' started before the cutoff
\* are marked failed.
StuckJobs == {j \in DOMAIN jobs : /\ jobs[j].status = "pending"
                                  /\ jobs[j].started_at < now - StuckTimeout}

CleanupStuckJobs ==
    /\ jobs' = [j \in DOMAIN jobs |->
                  IF j \in StuckJobs THEN [jobs[j] EXCEPT !.status = "failed"] ELSE jobs[j]]
    /\ UNCHANGED <<xvars, files, s3, task, cver, plan, resp, lcache, inflight, bumper, vlock>>

\* sync_restore_status: the restore jobs in_progress whose estimated_completion
\* has passed and whose file is 'restoring'.
DueRestores ==
    {j \in DOMAIN jobs : /\ jobs[j].job_type = "restore"
                         /\ jobs[j].status = "in_progress"
                         /\ jobs[j].estimated_completion # NoEta
                         /\ jobs[j].estimated_completion <= now
                         /\ files[jobs[j].file].status = "restoring"}

\* The file of each such job becomes 'restored', the job 'completed', and the
\* cache of every user concerned is invalidated.
SyncRestoreStatus ==
    LET users == {jobs[j].user : j \in DOMAIN jobs \cap DueRestores}
        done == {jobs[j].file : j \in DOMAIN jobs \cap DueRestores}
    IN  /\ \A u \in users : CacheGetVersion(u) < MaxVersion
        /\ files' = [f \in DOMAIN files |->
                       IF f \in done THEN [files[f] EXCEPT !.status = "restored"] ELSE files[f]]
        /\ jobs' = [j \in DOMAIN jobs |->
                      IF j \in DueRestores THEN [jobs[j] EXCEPT !.status = "completed"]
                      ELSE jobs[j]]
        /\ cver' = [u \in Users |-> IF u \in users THEN CacheGetVersion(u) + 1 ELSE cver[u]]
        /\ \E redis \in BOOLEAN :
              lcache' = [u \in Users |->
                           IF redis /\ u \in users THEN [v \in 0..MaxVersion |-> NoEntry]
                           ELSE lcache[u]]
        /\ UNCHANGED <<xvars, s3, task, plan, resp, inflight, bumper, vlock>>

\* The jobs on their own: a batch job of the second user waits for its task.
InitJobs ==
    /\ \E sts \in [FileIds -> InitStatuses] :
          /\ sts[NumFiles] = "uploaded"
          /\ files = [f \in FileIds |-> FileRow(Owner(f), sts[f], FALSE, KeyOf(sts[f]), 1)]
          /\ s3 = {<<f, KeyOf(sts[f])>> : f \in FileIds}
    /\ jobs = <<[file |-> NumFiles, job_type |-> "archive", status |-> "pending",
                 user |-> "u2", started_at |-> 0, estimated_completion |-> NoEta]>>
    /\ task = [t \in TaskIds |-> IdleTask]
    /\ cver = [u \in Users |-> 1]
    /\ \E a \in BOOLEAN :
          plan = [u \in Users |-> [active |-> (a /\ u = "u1"), used |-> 0, limit |-> PlanLimit]]
    /\ resp = NoResp
    /\ lcache = [u \in Users |-> [v \in 0..MaxVersion |-> NoEntry]]
    /\ inflight = [u \in Users |-> 0]
    /\ bumper = [p \in BumpIds |-> IdleBumper]
    /\ vlock = FALSE
    /\ InitRest

NextJobs ==
    \/ \E u \in TaskUsers : AutoHibernate(u)
    \/ \E u \in TaskUsers, ids \in IdSets : ViewBulkRestore(u, ids)
    \/ Tick
    \/ CleanupStuckJobs
    \/ SyncRestoreStatus

SpecJobs == InitJobs /\ [][NextJobs]_vars

\* ------------------------------------- the admin site and the restore cycle
\* MediaFileAdmin's change form: status is an editable field, the row of a
\* live file is saved with the status the operator chose.
AdminStatuses == {"restoring"}

AdminChangeMediaFile(f, st) ==
    /\ f \in DOMAIN files
    /\ ~files[f].is_deleted
    /\ files[f].status = "archived"
    /\ files' = [files EXCEPT ![f].status = st]
    /\ UNCHANGED <<xvars, s3, jobs, task, cver, plan, resp, lcache, inflight, bumper, vlock>>

\* ArchiveJobAdmin's add form: a restore job of the file's owner, in_progress,
\* with the standard-tier estimate.
AdminAddArchiveJob(f) ==
    /\ f \in DOMAIN files
    /\ Len(jobs) < MaxJobs
    /\ jobs' = Append(jobs, [JobRow(f, Owner(f), "restore", "in_progress")
                               EXCEPT !.estimated_completion = now + StandardHours])
    /\ UNCHANGED <<xvars, files, s3, task, cver, plan, resp, lcache, inflight, bumper, vlock>>

\* A restore recorded through the admin site, the sweeps, and archive requests.
NextCycle ==
    \/ \E f \in FileIds, st \in AdminStatuses : AdminChangeMediaFile(f, st)
    \/ \E f \in FileIds : AdminAddArchiveJob(f)
    \/ Tick
    \/ SyncRestoreStatus
    \/ CleanupStuckJobs
    \/ \E u \in TaskUsers, f \in FileIds : ArchiveFileCall(u, f)

SpecCycle == InitJobs /\ [][NextCycle]_vars

\* ------------------------------------------- batch jobs and the sweeps
Terminal == {"completed", "failed", "cancelled"}

\* cleanup_stuck_jobs over every ArchiveJob row: the jobs of single files and
\* the batch jobs the bulk tasks were queued with (created at time 0, 'pending'
\* until their task starts).
CleanupStuckAllJobs ==
    /\ jobs' = [j \in DOMAIN jobs |->
                  IF j \in StuckJobs THEN [jobs[j] EXCEPT !.status = "failed"] ELSE jobs[j]]
    /\ task' = [t \in TaskIds |->
                  IF task[t].job = "pending" /\ 0 < now - StuckTimeout
                  THEN [task[t] EXCEPT !.job = "failed"] ELSE task[t]]
    /\ UNCHANGED <<xvars, files, s3, cver, plan, resp, lcache, inflight, bumper, vlock>>

\* Queued bulk deletions, the restore sweep and the stuck-job sweep.
QueuedTasks == {1}

NextAbsorb ==
    \/ \E t \in QueuedTasks, u \in TaskUsers, ids \in IdSets : BulkDeleteLoad(t, u, ids)
    \/ \E t \in QueuedTasks : BulkDeleteS3Batch(t)
    \/ \E t \in QueuedTasks : BulkDeleteS3Fallback(t)
    \/ \E t \in QueuedTasks : BulkDeleteDb(t)
    \/ \E t \in QueuedTasks : BulkDeleteDbFallback(t)
    \/ \E t \in QueuedTasks : BulkFinish(t)
    \/ \E st \in AdminStatuses : AdminChangeMediaFile(1, st)
    \/ AdminAddArchiveJob(1)
    \/ Tick
    \/ SyncRestoreStatus
    \/ CleanupStuckAllJobs

SpecAbsorb == InitJobs /\ [][NextAbsorb]_vars

\* ------------------------------------------------ the bulk tasks: claims
S3Errors == {"s3_batch_error", "s3_delete_failed"}
S3FailedIds(t) == {t.failed[i].id : i \in {k \in DOMAIN t.failed : t.failed[k].error \in S3Errors}}

\* C2: in a bulk delete, the database step neither marks a file whose object
\* deletion failed as soft-deleted nor counts it in succeeded.
C2_FailedObjectNotDeleted ==
    [][\A t \in TaskIds :
          (task[t].kind = "delete" /\ task[t].pc = "db" /\ task'[t].pc = "finish")
          => \A f \in S3FailedIds(task[t]) :
                /\ f \notin task'[t].succeeded
                /\ files'[f].is_deleted = files[f].is_deleted]_vars

\* C3: in the summary of a finished bulk task the succeeded and the failed
\* items add up to the attempted ones, and every attempted item is in exactly
\* one of the two lists.
C3_SummaryAddsUp ==
    \A t \in TaskIds :
        task[t].pc = "done"
        => /\ Cardinality(task[t].succeeded) + Len(task[t].failed) = task[t].total
           /\ task[t].succeeded \cap FailedIds(task[t]) = {}
           /\ task[t].succeeded \cup FailedIds(task[t]) = task[t].cand

\* C4: a bulk task loads only rows of its user that are not soft-deleted, and
\* every row a step changes is one the stepping task has loaded.
C4_FrameOfBulkTasks ==
    [][/\ \A t \in TaskIds :
            (task[t].pc = "idle" /\ task'[t].pc # "idle")
            => \A f \in task'[t].cand :
                  files[f].owner = task'[t].user /\ ~files[f].is_deleted
       /\ \A f \in FileIds :
            files'[f] # files[f]
            => \E t \in TaskIds : /\ task'[t] # task[t]
                                  /\ f \in task[t].cand
                                  /\ files[f].owner = task[t].user]_vars

\* A bulk task has finished a request that names another user's file and a
\* file already soft-deleted at its load, and has left both alone.
C4_Witness ==
    \E t \in TaskIds, d \in TaskIds :
        /\ t # d
        /\ task[d].pc = "done" /\ task[d].kind = "delete" /\ 1 \in task[d].succeeded
        /\ task[t].pc = "done" /\ task[t].ids = FileIds
        /\ 1 \notin task[t].cand
        /\ task[t].cand # {}
        /\ files[1].is_deleted
        /\ ~files[NumFiles].is_deleted

\* C5: a committed soft-delete is never reverted by a concurrent bulk task's write.
C5_SoftDeleteNeverReverted ==
    [][\A f \in FileIds : files[f].is_deleted => files'[f].is_deleted]_vars

\* ------------------------------------------------- the view layer: claims
ArchiveResponses == {"bulk_archive", "archive_file"}

C6_NoStaleListing ==
    resp.op = "list" => \A e \in resp.listing : ~files[e[1]].is_deleted

\* C7: the cache version of the user is strictly greater after a bulk
\* operation or a single-file archive that has succeeded for some file.
C7_VersionGrows ==
    [][(/\ resp' # resp
        /\ resp'.op \in {"bulk_archive", "archive_file", "bulk_delete"}
        /\ resp'.succeeded # {})
       => (IF cver'[resp'.user] = NoKey THEN 0 ELSE cver'[resp'.user])
             > CacheGetVersion(resp'.user)]_vars

\* ----------------------------------------------- the upload paths: claims
BecomesUploaded(f) ==
    /\ files'[f].status = "uploaded"
    /\ (f \notin DOMAIN files \/ files[f].status # "uploaded")

\* C9: no upload path leaves a file in status 'uploaded' that takes the
\* user's usage over the applicable limit, and a rejection for the limit
\* carries remaining = max(0, limit - usage).
C9_QuotaEnforced ==
    [][/\ \A f \in DOMAIN files' :
            BecomesUploaded(f)
            => LiveUsage(files', files'[f].owner) <= Limit(files'[f].owner)
       /\ (resp' # resp /\ resp'.op \in {"storage_limit_error", "value_error"})
          => resp'.remaining
               = RemainingSpace(Limit(resp'.user), LiveUsage(files, resp'.user))]_vars

QuotaDecisions == {"created", "upload_failed", "storage_limit_error", "value_error",
                   "payment_required"}

\* C10: the usage figure a quota decision is taken on is the live sum of the
\* sizes of the user's rows that are not soft-deleted.
C10_UsageIsLiveSum ==
    [][(resp' # resp /\ resp'.op \in QuotaDecisions)
       => resp'.usage = LiveUsage(files, resp'.user)]_vars

\* ------------------------------------------- the cache invalidations: claims
\* C8: when two invalidations for the same user have both finished, the
\* version is at least one above what it was when either of them began.
C8_NetIncreaseAtLeastOne ==
    (\A p \in BumpIds : bumper[p].pc = "done")
    => \A p \in BumpIds : CacheGetVersion(BumpUser) >= bumper[p].v0 + 1

\* ------------------------------------------------ the uppy upload app: claims
\* C11: completing an upload that is already finished is a no-op: the session's
\* uploaded count advances, and a File Record is created, only in a step that
\* finishes an upload that was not finished before.
C11_SecondCompleteIsNoOp ==
    [][LET first == {k \in DOMAIN uploads : ~uploads[k].is_processed /\ uploads'[k].is_processed}
       IN  /\ \A sid \in DOMAIN sessions :
                 sessions'[sid].uploaded_files > sessions[sid].uploaded_files
                 => \E k \in first : uploads[k].upload_session = sid
           /\ Len(files') > Len(files) => first # {}]_vars

\* ------------------------------------------------------ the archive: claims
\* The archive jobs a step completes.
CompletedNow ==
    {j \in DOMAIN jobs' : /\ jobs'[j].job_type = "archive"
                          /\ jobs'[j].status = "completed"
                          /\ (j \notin DOMAIN jobs \/ jobs[j].status # "completed")}

\* C12: when the archive of an 'uploaded' file of a subscribed user succeeds,
\* its job becomes 'completed', the file was 'archiving' while the job ran and
\* is 'archived' afterwards, its object key is cleared and its archival
\* reference id is set.
C12_ArchivePostcondition ==
    [][\A j \in CompletedNow :
          LET f == jobs'[j].file IN
          /\ j \in DOMAIN jobs => files[f].status = "archiving"
          /\ files'[f].status = "archived"
          /\ files'[f].s3_key = "none"
          /\ files'[f].glacier_archive_id # "none"]_vars

\* The archive jobs a step fails.
FailedNow ==
    {j \in DOMAIN jobs' : /\ jobs'[j].job_type = "archive"
                          /\ jobs'[j].status = "failed"
                          /\ (j \notin DOMAIN jobs \/ jobs[j].status # "failed")}

\* C13: when a step of an archive fails after its job was created, the job is
\* 'failed' and the File Record is in status 'failed', not in 'uploaded'.
C13_FailedArchiveMarksFile ==
    [][\A j \in FailedNow : files'[jobs'[j].file].status = "failed"]_vars

\* --------------------------------------------- the bulk handlers: claims
BulkResponses == {"bulk_archive", "bulk_delete", "bulk_delete_none"}

\* C14: every bulk operation raises the cache version of its user by exactly
\* one, whatever the outcome of its items, also when no candidate is found.
C14_OneBumpPerBulkOperation ==
    [][(resp' # resp /\ resp'.op \in BulkResponses)
       => (IF cver'[resp'.user] = NoKey THEN 0 ELSE cver'[resp'.user])
             = CacheGetVersion(resp'.user) + 1]_vars

\* C15: in a bulk delete whose batched object delete fails as a whole (in the
\* view it always does), a delete is attempted for the key of every candidate:
\* afterwards the object of each candidate is gone or its own delete is
\* reported as failed.
C15_PerKeyFallback ==
    [][(resp' # resp /\ resp'.op = "bulk_delete")
       => \A f \in Candidates(resp'.user, resp'.ids) :
             files[f].s3_key # "none"
             => \/ <<f, files[f].s3_key>> \notin s3'
                \/ \E i \in DOMAIN resp'.failed :
                      resp'.failed[i] = [id |-> f, error |-> "s3_delete_failed"]]_vars

\* ----------------------------------------------------- the limiter: claims
\* The files of a user admitted for upload and not yet reported complete.
Uploading(u) ==
    {f \in DOMAIN files : files[f].owner = u /\ files[f].status = "uploading"}

\* C16: under every interleaving of get_presigned_urls requests of one user
\* the files admitted and not yet reported complete stay within
\* maxConcurrentUploads x perWorkerFanout.
C16_InflightCeiling ==
    \A u \in Users : Cardinality(Uploading(u)) <= MaxTotalFiles

\* --------------------------------------------- duplicate suppression: claims
\* C17: a user never has two File Records that are not deleted and carry the
\* same checksum and the same relative path.
C17_NoDuplicateRecords ==
    \A f \in DOMAIN files, g \in DOMAIN files :
        (/\ f # g
         /\ files[f].owner = files[g].owner
         /\ ~files[f].is_deleted /\ ~files[g].is_deleted
         /\ files[f].checksum # "none"
         /\ files[f].checksum = files[g].checksum)
        => files[f].relative_path # files[g].relative_path

\* --------------------------------------------------------- the jobs: claims
\* The jobs of a kind for a file that are pending or in progress.
OpenJobs(f, kind) ==
    {j \in DOMAIN jobs : /\ jobs[j].file = f
                         /\ jobs[j].job_type = kind
                         /\ jobs[j].status \in NonTerminal}

\* C18: a file has at most one archive job and at most one restore job that
\* is pending or in progress.
C18_OneOpenJobPerKind ==
    \A f \in DOMAIN files, kind \in {"archive", "restore"} :
        Cardinality(OpenJobs(f, kind)) <= 1

\* C19: the stuck-job sweep moves every job that has been pending or in
\* progress for longer than the timeout to 'failed'.
C19_SweepFailsStuckJobs ==
    [][CleanupStuckJobs
       => \A j \in DOMAIN jobs :
             (jobs[j].status \in NonTerminal /\ jobs[j].started_at < now - StuckTimeout)
             => jobs'[j].status = "failed"]_vars

\* C20: a standard-tier restore of an archived file of a subscribed user
\* leaves the file 'restoring' with a restore job in progress whose ETA is
\* the request time plus the standard-tier hours; the restore sweep completes
\* a restoring file's job only once its ETA has passed, and then does so.
C20_RestoreFollowsEta ==
    [][/\ \A u \in TaskUsers, ids \in IdSets :
            (ViewBulkRestore(u, ids) /\ resp'.op = "bulk_restore")
            => \A f \in Candidates(u, ids) :
                  (files[f].status = "archived" /\ plan[u].active)
                  => /\ files'[f].status = "restoring"
                     /\ \E j \in DOMAIN jobs' :
                           /\ jobs'[j].file = f
                           /\ jobs'[j].job_type = "restore"
                           /\ jobs'[j].status = "in_progress"
                           /\ jobs'[j].estimated_completion = now + StandardHours
       /\ SyncRestoreStatus
          => \A j \in DOMAIN jobs :
                (/\ jobs[j].job_type = "restore"
                 /\ jobs[j].status = "in_progress"
                 /\ files[jobs[j].file].status = "restoring")
                => IF jobs[j].estimated_completion # NoEta /\ jobs[j].estimated_completion <= now
                   THEN jobs'[j].status = "completed" /\ files'[jobs[j].file].status = "restored"
                   ELSE jobs'[j] = jobs[j] /\ files'[jobs[j].file] = files[jobs[j].file]]_vars

\* ------------------------------------------------ restore requests: claims
\* C21: a restore succeeds only on a file in status 'archived'.  A restore
\* requested on a file in any other status is refused with the state conflict
\* ("File is not archived"), is not reported as started, leaves the file's row
\* as it was and neither adds nor changes a job of that file.
C21_RestoreOnlyFromArchived ==
    [][(resp' # resp /\ resp'.op = "bulk_restore") =>
         \A f \in Candidates(resp'.user, resp'.ids) :
            files[f].status # "archived" =>
               /\ \E i \in DOMAIN resp'.failed :
                     /\ resp'.failed[i].id = f
                     /\ resp'.failed[i].error = "state_conflict"
               /\ f \notin resp'.succeeded
               /\ files'[f] = files[f]
               /\ \A j \in DOMAIN jobs' :
                     jobs'[j].file = f => j \in DOMAIN jobs /\ jobs'[j] = jobs[j]]_vars

C21_Witness ==
    /\ resp.op = "bulk_restore"
    /\ \E i \in DOMAIN resp.failed :
          /\ resp.failed[i].error = "state_conflict"
          /\ files[resp.failed[i].id].status = "uploaded"

\* C22: a file in status 'restored' is eligible for archive like an
\* 'uploaded' one: an archive request on it is not refused for its status.
C22_RestoredIsArchivable ==
    [][(resp' # resp /\ resp'.op = "archive_file") =>
         \A f \in resp'.ids :
            files[f].status = "restored" =>
               \A i \in DOMAIN resp'.failed : resp'.failed[i].error # "state_conflict"]_vars

\* ------------------------------------------------ upload sessions: claims
\* C23: once completion has been reported for each of a session's total_files
\* files, in any interleaving of the requests, the session is 'completed' and
\* its uploaded count equals total_files.
C23_SessionCompletes ==
    \A sid \in DOMAIN sessions :
       LET ups == {k \in DOMAIN uploads : uploads[k].upload_session = sid} IN
       (/\ Cardinality(ups) = sessions[sid].total_files
        /\ \A k \in ups : uploads[k].is_processed)
          => /\ sessions[sid].status = "completed"
             /\ sessions[sid].uploaded_files = sessions[sid].total_files

\* ------------------------------------------------ batch uploads: claims
\* C24: after abort of an upload no File Record of that upload remains in
\* status 'uploading' (the record is removed).
C24_AbortLeavesNoUploadingRecord ==
    resp.op = "abort" =>
       \A f \in resp.ids : ~(f \in DOMAIN files /\ files[f].status = "uploading")

\* C26: a File Record moves from 'uploading' to 'uploaded' only when that
\* file's own upload is complete: reporting completion of a batch does not
\* finalize a row of the user whose object has not been posted yet.
C26_BatchFinalizesOnlyItsFiles ==
    [][(resp' # resp /\ resp'.op = "batch_complete") =>
         \A f \in resp'.succeeded : <<f, files[f].s3_key>> \in s3]_vars

\* ------------------------------------------ concurrent cache bumps: claims
\* C25: no bump is lost: when the bulk operations of one user have each bumped
\* the version once through utils.invalidate_user_cache and all have finished,
\* the version is at least as many steps above the version the first of them
\* found as there were operations.
C25_NoBumpLost ==
    (\A p \in BumpIds : bumper[p].pc = "done" /\ bumper[p].kind = "utils")
    => \E p \in BumpIds :
          /\ \A q \in BumpIds : bumper[p].v0 <= bumper[q].v0
          /\ CacheGetVersion(BumpUser) >= bumper[p].v0 + NumBumpers

\* ------------------------------------------------ job states: claims
\* C27: terminal job states are absorbing: a job in status 'completed',
\* 'failed' or 'cancelled' keeps that status in every step, whether of a
\* sweep or of a bulk task running for the batch job.
C27_TerminalAbsorbing ==
    [][/\ \A j \in DOMAIN jobs :
             jobs[j].status \in Terminal => jobs'[j].status = jobs[j].status
       /\ \A t \in TaskIds :
             task[t].job \in Terminal => task'[t].job = task[t].job]_vars

\* ------------------------------------------ the in-flight counter: claims
\* C28: a get_presigned_urls request that is rejected or fails before any
\* URL is issued (429, 400 for an oversized batch, or an internal error)
\* leaves the user's files-in-flight counter as it was.
PresignRejections == {"too_many_inflight", "batch_too_large", "presign_failed"}

C28_RejectedRequestKeepsCounter ==
    [][(resp' # resp /\ resp'.op \in PresignRejections) => inflight' = inflight]_vars

\* -------------------------------------- the concurrent-upload limiter: claims
\* C29: the limiter does not lock a user out: once every upload the user has
\* started is completed, the concurrent_uploads counter is back at 0 (and so
\* the next upload request is admitted).
C29_CounterReturnsToZero ==
    \A u \in Users :
       (/\ \E k \in DOMAIN uploads : uploads[k].user = u
        /\ \A k \in DOMAIN uploads : uploads[k].user = u => uploads[k].is_processed)
          => concurrent[u] = 0

\* ------------------------------------- completions and deleted rows: claims
\* C30: a soft-deleted File Record stays deleted and keeps its status and
\* object key through every upload completion; a completed upload whose name
\* and size match it is recorded as a separate row.
C30_CompletionKeepsDeletedRows ==
    [][(resp' # resp /\ resp'.op = "uppy_complete") =>
         /\ \A f \in DOMAIN files :
               files[f].is_deleted =>
                  /\ files'[f].is_deleted
                  /\ files'[f].status = files[f].status
                  /\ files'[f].s3_key = files[f].s3_key
         /\ \A f \in resp'.succeeded : f \in DOMAIN files => ~files[f].is_deleted]_vars

====
